---------------------------- MODULE Spec2Model ----------------------------
(***************************************************************************)
(* Model of sync_jira_actions/sync_issue.py: the handlers that mirror one  *)
(* GitHub issue (the source issue) into JIRA (the target tracker).         *)
(*                                                                         *)
(* Each invocation of a handler is a process of its own (one GitHub Action *)
(* run per event).  A step of an invocation is one remote call together    *)
(* with the local computation that follows it.  Titles, labels and keys    *)
(* are sequences of one-character strings, so that the regular             *)
(* expressions and str methods of the code are computed character by       *)
(* character.                                                              *)
(***************************************************************************)
EXTENDS Integers, Sequences, FiniteSets, TLC

VARIABLES
    gh,        \* the source issue as GitHub holds it: title, state, labels
    issues,    \* the JIRA project: issues[k] is the issue with key P-k
    inv,       \* the invocations: position, event and local variables
    runs,      \* number of invocations started so far (deliveries)
    overlap,   \* history: two invocations have been in flight together
    errors,    \* number of remote calls that have raised an error so far
    snap,      \* history: both trackers when the invocation in flight began
    lastDone,  \* history: the invocation that returned last, nothing since
    batch      \* sync_issues_manually: its position and the tokens left

vars == <<gh, issues, inv, runs, errors, overlap, snap, lastDone, batch>>

-----------------------------------------------------------------------------
(* Bounds of the model.                                                    *)

\* Deliveries (first deliveries and re-deliveries) in one behaviour.
MaxRuns == 2

\* Remote calls that raise an error for a reason outside the two trackers'
\* state (the network, the server, a permission) in one behaviour.  A
\* GithubException of the title edit, which the code retries, is not
\* counted.
MaxErrors == 1

\* The invocations that can be in flight: two GitHub Action runs.
Procs == {1, 2}

-----------------------------------------------------------------------------
(* Strings: sequences of characters.                                       *)

UpperChars == <<"A","B","C","D","E","F","G","H","I","J","K","L","M",
                "N","O","P","Q","R","S","T","U","V","W","X","Y","Z">>
LowerChars == <<"a","b","c","d","e","f","g","h","i","j","k","l","m",
                "n","o","p","q","r","s","t","u","v","w","x","y","z">>
DigitChars == <<"0","1","2","3","4","5","6","7","8","9">>

Range(s) == {s[i] : i \in DOMAIN s}

IsUpper(c) == c \in Range(UpperChars)
\* \s of the re module, for the characters the model uses
IsSpace(c) == c \in {" ", "\n", "\t"}

\* str.lower() on one character
LowerChar(c) ==
    IF IsUpper(c)
    THEN LowerChars[CHOOSE i \in DOMAIN UpperChars : UpperChars[i] = c]
    ELSE c

\* str.lower()
Lower(s) == [i \in DOMAIN s |-> LowerChar(s[i])]

\* str.startswith(prefix)
StartsWith(s, prefix) ==
    /\ Len(s) >= Len(prefix)
    /\ SubSeq(s, 1, Len(prefix)) = prefix

\* str.replace(' ', '-')
ReplaceSpaces(s) == [i \in DOMAIN s |-> IF s[i] = " " THEN "-" ELSE s[i]]

WordSet  == Range(UpperChars) \cup Range(LowerChars) \cup Range(DigitChars) \cup {"_"}
DigitSet == Range(DigitChars)
UpperSet == Range(UpperChars)

\* The first position at or after i whose character is not in the class
\* (Len(s) + 1 when the run reaches the end): where a greedy class+ that
\* starts at i stops.
RunEnd(s, i, class) ==
    LET stops == {j \in i..Len(s) : s[j] \notin class}
    IN  IF stops = {} THEN Len(s) + 1
        ELSE CHOOSE j \in stops : \A k \in stops : j <= k

-----------------------------------------------------------------------------
(* The source issue and the configuration.                                 *)

\* gh_issue['html_url'], gh_issue['user']['login'], event['sender']['login'],
\* gh_comment['html_url'] and gh_comment['user']['login']
Url         == "https://github.com/o/r/issues/1"
IssueUser   == "alice"
Sender      == "bob"
CommentUrl  == "https://github.com/o/r/issues/1#issuecomment-1"
CommentUser == "carol"

\* gh_issue['number'], as str() prints it
NumberText == <<"1">>

\* os.environ['JIRA_PROJECT']; the keys of its issues are P-1, P-2, ...
JiraProject == <<"P">>

KeyOf(k) == JiraProject \o <<"-", DigitChars[k + 1]>>

\* Source labels (label['name']) that events carry.
LabelGoodFirst == <<"a"," ","b">>
LabelBug       == <<"b","u","g">>
LabelStatus    == <<"S","t","a","t","u","s",":"," ","x">>
LabelResol     == <<"R","E","S","O","L","U","T","I","O","N",":","y">>
SourceLabels   == {LabelGoodFirst, LabelBug, LabelStatus, LabelResol}

\* Titles the source issue starts with: a plain one, and one that names the
\* JIRA issue P-1 at its end (a manually synced issue, see _find_jira_issue).
TitlePlain == <<"T">>
TitleKeyed == <<"T"," ","(","P","-","1",")">>

-----------------------------------------------------------------------------
(* Texts: issue and comment bodies.  A text is known by its first          *)
(* KeptBodyLen characters (pre), the characters after them (rest) and its  *)
(* length; fmt tells Markdown from JIRA wiki markup.                       *)

MaxBodyLen  == 16384
KeptBodyLen == 16376

NoBody    == [fmt |-> "none", pre |-> "", rest |-> "", len |-> 0]
BodyShort == [fmt |-> "md", pre |-> "s", rest |-> "", len |-> 10]
BodyLongA == [fmt |-> "md", pre |-> "l", rest |-> "a", len |-> 20000]
BodyLongB == [fmt |-> "md", pre |-> "l", rest |-> "b", len |-> 20000]
\* Markdown on which markdown2confluence exits with an error
BodyBad   == [fmt |-> "md-bad", pre |-> "x", rest |-> "", len |-> 5]

\* The output of the markdown2confluence program on a Markdown file: the
\* same text in wiki markup (the program is not part of the repository).
Markdown2Confluence(md) == [md EXCEPT !.fmt = "wiki"]

\* _markdown2wiki
Markdown2wiki(markdown) ==
    IF markdown = NoBody
    THEN [fmt |-> "wiki", pre |-> "\n", rest |-> "", len |-> 1]
    ELSE IF markdown.fmt = "md-bad"
    THEN markdown
    ELSE LET result == Markdown2Confluence(markdown)
         IN  IF result.len > MaxBodyLen
             THEN [result EXCEPT !.rest = "\n\n[...]", !.len = KeptBodyLen + 7]
             ELSE result

-----------------------------------------------------------------------------
(* FieldMapper: the pure functions of sync_issue.py.                       *)

\* _get_jira_label
GetJiraLabel(name) == ReplaceSpaces(name)

IgnorePrefix == {<<"s","t","a","t","u","s",":">>,
                 <<"r","e","s","o","l","u","t","i","o","n",":">>}

\* LabelIgnored without the .lower() of _check_issue_label
LabelIgnoredCased(label) == \E prefix \in IgnorePrefix : StartsWith(label, prefix)

\* _check_issue_label returns None: the label is one JIRA owns
LabelIgnored(label) == \E prefix \in IgnorePrefix : StartsWith(Lower(label), prefix)

\* The end (the position after it) of a match of r' \([\w]+-[\d]+\)' that
\* starts at position i of s, or 0 when there is none.  Neither class holds
\* '-' or ')', so each greedy run ends where the match must go on.
SlugMatchEnd(s, i) ==
    IF ~(i + 1 <= Len(s) /\ s[i] = " " /\ s[i + 1] = "(") THEN 0
    ELSE LET j == RunEnd(s, i + 2, WordSet)
         IN  IF ~(j > i + 2 /\ j <= Len(s) /\ s[j] = "-") THEN 0
             ELSE LET k == RunEnd(s, j + 1, DigitSet)
                  IN  IF k > j + 1 /\ k <= Len(s) /\ s[k] = ")" THEN k + 1 ELSE 0

\* StripSlugs with re.sub(..., count=1): the leftmost match alone is dropped
StripFirstSlug(s, i) ==
    LET starts == {j \in i..Len(s) : SlugMatchEnd(s, j) > 0}
    IN  IF starts = {} THEN SubSeq(s, i, Len(s))
        ELSE LET j == CHOOSE j \in starts : \A k \in starts : j <= k
             IN  SubSeq(s, i, j - 1) \o SubSeq(s, SlugMatchEnd(s, j), Len(s))

\* StripSlugs with the pattern anchored at the end of the string
\* (r' \([\w]+-[\d]+\)$'): a match is dropped only where it ends s
StripTrailingSlug(s, i) ==
    LET starts == {j \in i..Len(s) : SlugMatchEnd(s, j) = Len(s) + 1}
    IN  IF starts = {} THEN SubSeq(s, i, Len(s))
        ELSE SubSeq(s, i, (CHOOSE j \in starts : TRUE) - 1)

\* re.sub(r' \([\w]+-[\d]+\)', '', s) from position i on: every match,
\* leftmost first, is dropped.
RECURSIVE StripSlugs(_, _)
StripSlugs(s, i) ==
    IF i > Len(s) THEN <<>>
    ELSE LET e == SlugMatchEnd(s, i)
         IN  IF e > 0 THEN StripSlugs(s, e)
             ELSE <<s[i]>> \o StripSlugs(s, i + 1)

\* GetSummary without the re.sub: the title as it is
GetSummaryRaw(gh_issue) ==
    (IF gh_issue.isPr THEN <<"P","R">> ELSE <<"G","H">>)
        \o <<" ","#">> \o NumberText \o <<":"," ">> \o gh_issue.title

\* _get_summary
GetSummary(gh_issue) ==
    LET result == (IF gh_issue.isPr THEN <<"P","R">> ELSE <<"G","H">>)
                  \o <<" ","#">> \o NumberText \o <<":"," ">> \o gh_issue.title
    IN  StripSlugs(result, 1)

\* _get_description: the template filled in
GetDescription(gh_issue) ==
    [fmt    |-> IF gh_issue.isPr THEN "Pull Request" ELSE "Issue",
     url    |-> Url,
     user   |-> IssueUser,
     body   |-> Markdown2wiki(gh_issue.body)]

\* issue.fields.description of an issue that has no description: None
NoDescription == [fmt |-> "none", url |-> "", user |-> "", body |-> NoBody]

\* gh_issue['html_url'] in issue.fields.description, for a description
\* that is a string
DescriptionContains(description, url) == description.url = url

\* re.search(r'\(([A-Z]+-\d+)\)\s*$', title): group 1, or <<>> when the
\* title does not end in a key.  The match is anchored at the end, so there
\* is at most one: e is the position of its ')', d of its first digit and u
\* of its first capital.
TitleKey(title) ==
    LET n == Len(title)
        keys ==
          UNION {UNION {{SubSeq(title, u, e - 1) :
                           u \in {u \in 2..(d - 2) :
                                    /\ title[u - 1] = "("
                                    /\ \A j \in u..(d - 2) : title[j] \in UpperSet}} :
                        d \in {d \in 3..(e - 1) :
                                 /\ title[d - 1] = "-"
                                 /\ \A j \in d..(e - 1) : title[j] \in DigitSet}} :
                 e \in {e \in 1..n :
                          /\ title[e] = ")"
                          /\ \A j \in (e + 1)..n : IsSpace(title[j])}}
    IN  IF keys = {} THEN <<>> ELSE CHOOSE k \in keys : TRUE

\* _get_jira_comment_body
GetJiraCommentBody(body) ==
    [head |-> <<"[GitHub issue comment|", CommentUrl, "] by @", CommentUser, ":\n\n">>,
     body |-> body]

\* The body of the comment _leave_jira_issue_comment adds
AuditComment(isPr, verb) ==
    [head |-> <<"The [GitHub ", IF isPr THEN "PR" ELSE "issue", "|", Url,
                "] has been ", verb, " by @", Sender>>,
     body |-> NoBody]

\* The body of the comment handle_comment_deleted adds
DeletedComment ==
    [head |-> <<"@", CommentUser, " deleted [GitHub issue comment|", CommentUrl, "]">>,
     body |-> NoBody]

-----------------------------------------------------------------------------
(* Issue types and components of the JIRA project.                         *)

JIRA_NEW_FEATURE_TYPE_ID == 10101
JIRA_BUG_TYPE_ID         == 10004

\* jira.issue_types(): id and name
IssueTypes == {[id |-> 1, name |-> <<"B","u","g">>],
               [id |-> 3, name |-> <<"T","a","s","k">>]}

TypeFeatureRequest == <<"T","y","p","e",":"," ","F","e","a","t","u","r","e"," ",
                        "R","e","q","u","e","s","t">>
TypeBugIcon        == <<"T","y","p","e",":"," ","B","u","g"," ",":","b","u","g",":">>

\* What one label maps to in _get_jira_issue_type: an issue type id, or 0
LabelIssueType(gh_label) ==
    IF gh_label = TypeFeatureRequest THEN JIRA_NEW_FEATURE_TYPE_ID
    ELSE IF gh_label = TypeBugIcon THEN JIRA_BUG_TYPE_ID
    ELSE LET hits == {t \in IssueTypes :
                        Lower(gh_label) \in
                          {Lower(t.name), <<"t","y","p","e",":"," ">> \o Lower(t.name)}}
         IN  IF hits = {} THEN 0 ELSE (CHOOSE t \in hits : TRUE).id

\* _get_jira_issue_type, and the default of _create_jira_issue when it
\* returns None: os.environ.get('JIRA_ISSUE_TYPE', 'Task').  The labels of
\* the model hold at most one that names a type, so the order of the list
\* does not matter.
GetJiraIssueType(labels) ==
    LET typed == {l \in labels : LabelIssueType(l) # 0}
    IN  IF typed = {} THEN [id |-> 0, name |-> "Task"]
        ELSE [id |-> LabelIssueType(CHOOSE l \in typed : TRUE), name |-> ""]

\* os.environ.get('JIRA_COMPONENT', '') and jira.project_components(project)
JiraComponent     == "core"
ProjectComponents == {"core", "docs"}

\* _update_components_field: the value of fields['components'], or <<>> when
\* the field is left out.  existing is the list of the component names of
\* the existing issue (<<>> for a new issue).  In the loop the name
\* `component` is the loop's own object, so `component.name != component`
\* compares a name with the object that has it and is always true.
UpdateComponentsField(existing) ==
    IF JiraComponent = "" THEN <<>>
    ELSE IF JiraComponent \notin ProjectComponents THEN <<>>
    ELSE <<JiraComponent>> \o existing

\* The components JIRA keeps for a list of names: each component once, in
\* the order of its first mention.
RECURSIVE StoredComponents(_)
StoredComponents(names) ==
    IF names = <<>> THEN <<>>
    ELSE LET front == StoredComponents(SubSeq(names, 1, Len(names) - 1))
             last  == names[Len(names)]
         IN  IF last \in Range(front) THEN front ELSE Append(front, last)

-----------------------------------------------------------------------------
(* The JIRA project.                                                       *)

\* NewLink with a globalId that is not the url of the source issue
NewLinkNoId(gh_issue) ==
    [globalId |-> "", url |-> Url, title |-> gh_issue.title,
     relationship |-> "synced from", resolved |-> FALSE]

\* The remote link _add_remote_link adds
NewLink(gh_issue) ==
    [globalId |-> Url, url |-> Url, title |-> gh_issue.title,
     relationship |-> "synced from", resolved |-> FALSE]

\* jira.create_issue(fields) of _create_jira_issue; by is the invocation
\* that creates it (history: 0 for an issue that was there before).
NewIssue(gh_issue, by) ==
    [summary     |-> GetSummary(gh_issue),
     description |-> GetDescription(gh_issue),
     issuetype   |-> GetJiraIssueType(gh_issue.labels),
     labels      |-> {GetJiraLabel(lbl) : lbl \in gh_issue.labels},
     components  |-> StoredComponents(UpdateComponentsField(<<>>)),
     status      |-> "",
     links       |-> <<>>,
     comments    |-> <<>>,
     by          |-> by]

\* A search that finds nothing (a query that matches no issue)
LinkedNone(iss, url) == {}

\* Linked with a query that misses the links that are not resolved
LinkedResolvedOnly(iss, url) ==
    {k \in DOMAIN iss : \E n \in DOMAIN iss[k].links :
                            iss[k].links[n].globalId = url /\ iss[k].links[n].resolved}

\* issue in issuesWithRemoteLinksByGlobalId(url)
Linked(iss, url) == {k \in DOMAIN iss : \E n \in DOMAIN iss[k].links :
                                           iss[k].links[n].globalId = url}

\* jira.issue(key): the index of the issue with that key, 0 when there is
\* none (JIRAError)
IssueByKey(iss, key) ==
    IF \E k \in DOMAIN iss : KeyOf(k) = key
    THEN CHOOSE k \in DOMAIN iss : KeyOf(k) = key
    ELSE 0

-----------------------------------------------------------------------------
(* Events.                                                                 *)

NoComment == [fmt |-> "absent", pre |-> "", rest |-> "", len |-> 0]

IssueBodies   == {BodyShort, BodyBad}
CommentBodies == {BodyShort, BodyLongA, BodyLongB}

\* The events GitHub can send when the source issue is g.  An event is what
\* the user did (g becomes e.gh) and the payload: event['issue'] is e.gh,
\* event['label']['name'] is e.label, event['comment']['body'] is
\* e.gh.comment and event['changes']['body']['from'] is e.from.
Events(g) ==
    LET Ev(kind, label, from, after) ==
            [kind |-> kind, label |-> label, from |-> from, gh |-> after]
    IN  {Ev("opened", <<>>, NoBody, g) : x \in IF g.state = "open" THEN {1} ELSE {}}
        \cup {Ev("edited", <<>>, NoBody, [g EXCEPT !.body = b]) : b \in IssueBodies \ {g.body}}
        \cup {Ev("closed", <<>>, NoBody, [g EXCEPT !.state = "closed"]) :
                x \in IF g.state = "open" THEN {1} ELSE {}}
        \cup {Ev("reopened", <<>>, NoBody, [g EXCEPT !.state = "open"]) :
                x \in IF g.state = "closed" THEN {1} ELSE {}}
        \cup {Ev("deleted", <<>>, NoBody, g)}
        \cup {Ev("labeled", l, NoBody, [g EXCEPT !.labels = @ \cup {l}]) :
                l \in SourceLabels \ g.labels}
        \cup {Ev("unlabeled", l, NoBody, [g EXCEPT !.labels = @ \ {l}]) :
                l \in g.labels}
        \cup {Ev("comment_created", <<>>, NoBody, [g EXCEPT !.comment = b]) :
                b \in IF g.comment = NoComment THEN CommentBodies ELSE {}}
        \cup {Ev("comment_edited", <<>>, g.comment, [g EXCEPT !.comment = b]) :
                b \in IF g.comment = NoComment THEN {} ELSE CommentBodies \ {g.comment}}
        \cup {Ev("comment_deleted", <<>>, NoBody, [g EXCEPT !.comment = NoComment]) :
                x \in IF g.comment = NoComment THEN {} ELSE {1}}

\* MakeNew with a handle_issue_reopened that passes False, as
\* handle_issue_closed does
MakeNewMirror(kind, gh_issue) ==
    CASE kind \in {"opened", "closed", "reopened", "deleted"} -> FALSE
      [] kind \in {"labeled", "unlabeled"} -> gh_issue.state = "open"
      [] OTHER -> TRUE

\* The make_new (should_create) argument each handler resolves with
MakeNew(kind, gh_issue) ==
    CASE kind = "opened"    -> FALSE
      [] kind = "edited"    -> TRUE
      [] kind = "closed"    -> FALSE
      [] kind = "reopened"  -> TRUE
      [] kind = "deleted"   -> FALSE
      [] kind \in {"labeled", "unlabeled"} -> gh_issue.state = "open"
      [] OTHER              -> TRUE

\* The retries parameter of _find_jira_issue, and of the loop of
\* _update_github_with_jira_key
FindRetries == 5
EditRetries == 5

-----------------------------------------------------------------------------
(* Invocations.                                                            *)

Rest == {"idle", "done", "failed"}

NoEvent == [kind |-> "", label |-> <<>>, from |-> NoBody,
            gh |-> [title |-> <<>>, state |-> "", labels |-> {}, body |-> NoBody,
                    comment |-> NoComment, isPr |-> FALSE]]

Idle == [pc |-> "idle", event |-> NoEvent, retries |-> 0, found |-> 0,
         labels |-> {}, comps |-> <<>>, apiTitle |-> <<>>, edits |-> 0,
         error |-> "", run |-> 0, rerun |-> FALSE]

\* An invocation as main() starts the handler of event e
Begin(e, run, rerun) ==
    [Idle EXCEPT !.pc = "search", !.event = e, !.retries = FindRetries,
                 !.run = run, !.rerun = rerun]

\* The invocation has ended ("done": the handler returned, "failed": an
\* exception left it); its local variables are gone.
End(r, outcome) ==
    [Idle EXCEPT !.pc = outcome, !.event = r.event, !.run = r.run, !.rerun = r.rerun]

\* An exception of class error leaves the invocation
Fail(r, error) == [End(r, "failed") EXCEPT !.error = error]

\* The issue object the invocation holds after it fetched issue k: its key
\* and the fields as they were in iss, the project at that moment.
Fetch(r, k, iss) ==
    [r EXCEPT !.found = k, !.labels = iss[k].labels, !.comps = iss[k].components]

\* Found as it would be if handle_issue_opened had no `if issue is not
\* None: return`: the handler creates an issue whether or not one is found.
FoundNoReturn(r) ==
    IF r.event.kind = "opened" THEN [r EXCEPT !.pc = "c_create"]
    ELSE [r EXCEPT !.pc = "comment"]

\* The handler goes on with the issue r.found that _find_jira_issue (or
\* _leave_jira_issue_comment) returned.
Found(r) ==
    LET kind  == r.event.kind
        label == GetJiraLabel(r.event.label)
    IN  CASE kind = "opened" -> End(r, "done")
          [] kind = "edited" -> [r EXCEPT !.pc = "ed_update"]
          [] kind = "labeled" ->
                IF LabelIgnored(label) THEN End(r, "done")
                ELSE IF label \notin r.labels THEN [r EXCEPT !.pc = "lab_update"]
                ELSE End(r, "done")
          [] kind = "unlabeled" ->
                IF LabelIgnored(label) THEN End(r, "done")
                ELSE IF label \in r.labels THEN [r EXCEPT !.pc = "lab_update"]
                ELSE End(r, "done")
          [] kind = "comment_edited" -> [r EXCEPT !.pc = "ce_apply"]
          [] OTHER -> [r EXCEPT !.pc = "comment"]

\* _find_jira_issue returned None (make_new is false)
ReturnedNone(r) ==
    LET kind == r.event.kind
    IN  CASE kind = "opened" -> [r EXCEPT !.pc = "c_create"]
          \* handle_issue_closed: issue.update on None, an AttributeError
          \* that `except JIRAError` does not catch
          [] kind = "closed" -> Fail(r, "AttributeError: NoneType.update")
          [] OTHER -> End(r, "done")

\* NotFound with the last wait left out: `retries > 1` for `retries > 0`
NotFoundEarly(r) ==
    IF ~MakeNew(r.event.kind, r.event.gh) THEN ReturnedNone(r)
    ELSE IF r.retries > 1 THEN [r EXCEPT !.retries = @ - 1, !.pc = "search"]
    ELSE [r EXCEPT !.pc = "c_create"]

\* _find_jira_issue past the search and the manual match, nothing found
NotFound(r) ==
    IF ~MakeNew(r.event.kind, r.event.gh) THEN ReturnedNone(r)
    ELSE IF r.retries > 0 THEN [r EXCEPT !.retries = @ - 1, !.pc = "search"]
    ELSE [r EXCEPT !.pc = "c_create"]

\* _create_jira_issue returned issue r.found
Created(r) ==
    IF r.event.kind = "opened" THEN End(r, "done") ELSE Found(r)

-----------------------------------------------------------------------------
(* The initial state: the source issue is open and has no labels and no    *)
(* comment.  The JIRA project is empty, or it holds the issue P-1: synced  *)
(* earlier (created by _create_jira_issue, with labels L), or created by   *)
(* hand with or without the url of the source issue in its description,   *)
(* or with no description.                                                 *)

InitLabelSets == SUBSET {GetJiraLabel(LabelGoodFirst), <<"j">>}

NewSource(title) ==
    [title |-> title, state |-> "open", labels |-> {}, body |-> BodyShort,
     comment |-> NoComment, isPr |-> FALSE]

\* A pull request: 'pull_request' in gh_issue
PullRequest(title) == [NewSource(title) EXCEPT !.isPr = TRUE]

SyncedIssue(L) ==
    [NewIssue(NewSource(TitlePlain), 0) EXCEPT
        !.labels = L, !.status = "Open", !.links = <<NewLink(NewSource(TitlePlain))>>]

ManualIssue(url) ==
    [NewIssue(NewSource(TitlePlain), 0) EXCEPT
        !.summary = <<"m">>,
        !.description = [fmt |-> "manual", url |-> url, user |-> "", body |-> NoBody],
        !.components = <<"docs">>]

\* An issue created by hand and left without a description
BlankIssue == [ManualIssue("") EXCEPT !.description = NoDescription]

\* History: what the delivery before the last one was, and the project
\* before it
NoPrev == [kind |-> "", label |-> <<>>, done |-> FALSE, issues |-> <<>>]

NoSnap == [taken |-> FALSE, issues |-> <<>>, title |-> <<>>, prev |-> NoPrev]

\* History: the project and the title as a delivery finds them, after the
\* delivery to invocation j
Snapshot(j, title) ==
    [taken  |-> TRUE, issues |-> issues, title |-> title,
     prev   |-> [kind |-> inv[j].event.kind, label |-> inv[j].event.label,
                 done |-> inv[j].pc = "done", issues |-> snap.issues]]

\* No manual sync has been triggered
NoBatch == [pc |-> "none", input |-> <<>>, tokens |-> <<>>, ran |-> <<>>, error |-> ""]

Init ==
    /\ \/ /\ gh \in {NewSource(TitlePlain), PullRequest(TitlePlain)}
          /\ issues = <<>>
       \/ /\ gh = NewSource(TitleKeyed)
          /\ \E L \in InitLabelSets : issues = <<SyncedIssue(L)>>
       \/ /\ gh = NewSource(TitleKeyed)
          /\ issues \in {<<>>, <<ManualIssue(Url)>>, <<ManualIssue("")>>, <<BlankIssue>>}
    /\ inv = [i \in Procs |-> Idle]
    /\ runs = 0
    /\ errors = 0
    /\ overlap = FALSE
    /\ snap = NoSnap
    /\ lastDone = 0
    /\ batch = NoBatch

-----------------------------------------------------------------------------
(* Deliveries.                                                             *)

Quiet == \A j \in Procs : inv[j].pc \in Rest

\* GitHub sends an event and the Action starts its handler while no other
\* invocation is in flight.
Start(i) ==
    /\ runs < MaxRuns
    /\ Quiet
    /\ ~overlap
    /\ i = 1
    /\ \E e \in Events(gh) :
          /\ gh' = e.gh
          /\ inv' = [inv EXCEPT ![i] = Begin(e, 1, FALSE)]
    /\ runs' = runs + 1
    /\ snap' = Snapshot(i, gh'.title)
    /\ lastDone' = 0
    /\ UNCHANGED <<issues, errors, overlap, batch>>

\* The same, while the invocation of the first delivery is in flight: the
\* two race.  No delivery follows a race.
StartRacing(i) ==
    /\ runs = 1
    /\ inv[i].pc = "idle"
    /\ \E j \in Procs \ {i} : inv[j].pc \notin Rest
    /\ \E e \in Events(gh) :
          /\ gh' = e.gh
          /\ inv' = [inv EXCEPT ![i] = Begin(e, 1, FALSE)]
    /\ runs' = runs + 1
    /\ overlap' = TRUE
    /\ snap' = NoSnap
    /\ lastDone' = 0
    /\ UNCHANGED <<issues, errors, batch>>

\* The event of invocation i is delivered again (the workflow run is
\* re-run) after it returned or failed: the payload is the one of the first
\* delivery.  rerun: the first delivery returned and nothing ran since.
Redeliver(i) ==
    /\ runs < MaxRuns
    /\ Quiet
    /\ ~overlap
    /\ inv[i].pc \in {"done", "failed"}
    /\ inv' = [inv EXCEPT ![i] = Begin(inv[i].event, inv[i].run + 1,
                                      inv[i].pc = "done" /\ lastDone = i)]
    /\ runs' = runs + 1
    /\ snap' = Snapshot(i, gh.title)
    /\ lastDone' = 0
    /\ UNCHANGED <<gh, issues, errors, overlap, batch>>

\* What a step of invocation i leaves alone, and the history it writes.
Frame(i) ==
    /\ lastDone' = IF inv'[i].pc = "done" THEN i ELSE 0
    /\ UNCHANGED <<runs, overlap, snap, batch>>

\* The step makes no remote call that raises / one that raises
NoError == errors' = errors
Raises  == errors < MaxErrors /\ errors' = errors + 1

-----------------------------------------------------------------------------
(* _find_jira_issue                                                        *)

\* jira.search_issues(jql_query), and what follows it up to the next remote
\* call.  The query orders by `updated`, which the model does not keep: of
\* several linked issues any can be res[0].
Search(i) ==
    LET r   == inv[i]
        res == Linked(issues, Url)
    IN  /\ r.pc = "search"
        /\ IF res # {}
           THEN \E k \in res : inv' = [inv EXCEPT ![i] = Found(Fetch(r, k, issues))]
           ELSE IF TitleKey(r.event.gh.title) # <<>>
           THEN inv' = [inv EXCEPT ![i].pc = "mm_get"]
           ELSE inv' = [inv EXCEPT ![i] = NotFound(r)]
        /\ UNCHANGED <<gh, issues>>
        /\ NoError
        /\ Frame(i)

\* jira.issue(match.group(1)) of the manual match, and the check of the
\* description.  When there is no such issue the call raises JIRAError and
\* the clause `except jira.exceptions.JIRAError` is evaluated on the client
\* object `jira`: it catches the error when the object has that attribute,
\* and raises AttributeError when it has not.  When the issue has no
\* description, `in` is applied to None and raises TypeError, which the
\* clause does not name.
ManualGet(i) ==
    LET r == inv[i]
        k == IssueByKey(issues, TitleKey(r.event.gh.title))
    IN  /\ r.pc = "mm_get"
        /\ IF k = 0
           THEN /\ NoError
                /\ \/ inv' = [inv EXCEPT ![i] = NotFound(r)]
                   \/ inv' = [inv EXCEPT ![i] = Fail(r, "AttributeError: JIRA.exceptions")]
           ELSE /\ NoError
                /\ IF issues[k].description = NoDescription
                   THEN inv' = [inv EXCEPT ![i] = Fail(r, "TypeError")]
                   ELSE IF DescriptionContains(issues[k].description, Url)
                   THEN inv' = [inv EXCEPT ![i] = [Fetch(r, k, issues) EXCEPT !.pc = "mm_link"]]
                   ELSE inv' = [inv EXCEPT ![i] = NotFound(r)]
        /\ UNCHANGED <<gh, issues>>
        /\ Frame(i)

\* _add_remote_link of the manual match; _find_jira_issue returns the issue
ManualLink(i) ==
    LET r == inv[i]
    IN  /\ r.pc = "mm_link"
        /\ issues' = [issues EXCEPT ![r.found].links = Append(@, NewLink(r.event.gh))]
        /\ inv' = [inv EXCEPT ![i] = Found(r)]
        /\ UNCHANGED gh
        /\ NoError
        /\ Frame(i)

-----------------------------------------------------------------------------
(* _create_jira_issue                                                      *)

\* jira.create_issue(fields)
CreateIssue(i) ==
    LET r == inv[i]
        k == Len(issues) + 1
    IN  /\ r.pc = "c_create"
        /\ issues' = Append(issues, NewIssue(r.event.gh, i))
        /\ inv' = [inv EXCEPT ![i] = [Fetch(r, k, issues') EXCEPT !.pc = "c_status"]]
        /\ UNCHANGED gh
        /\ NoError
        /\ Frame(i)

\* The value the handler sets customfield_12100 to
StatusValue(r) == IF r.event.kind = "closed" THEN "Closed" ELSE "Open"

\* SetStatus without the try block: the JIRAError of issue.update leaves
\* the handler
SetStatusFatal(i) ==
    LET r    == inv[i]
        next == IF r.pc = "c_status" THEN "c_link" ELSE "lr"
    IN  /\ r.pc \in {"c_status", "status"}
        /\ \/ /\ NoError
              /\ issues' = [issues EXCEPT ![r.found].status = StatusValue(r)]
              /\ inv' = [inv EXCEPT ![i] = [Fetch(r, r.found, issues') EXCEPT !.pc = next]]
           \/ /\ Raises
              /\ issues' = issues
              /\ inv' = [inv EXCEPT ![i] = Fail(r, "JIRAError")]
        /\ UNCHANGED gh
        /\ Frame(i)

\* issue.update(fields={'customfield_12100': ...}) in its try block: the
\* field is set (and the issue object reloaded), or JIRAError is caught.
SetStatus(i) ==
    LET r    == inv[i]
        next == IF r.pc = "c_status" THEN "c_link" ELSE "lr"
    IN  /\ r.pc \in {"c_status", "status"}
        /\ \/ /\ NoError
              /\ issues' = [issues EXCEPT ![r.found].status = StatusValue(r)]
              /\ inv' = [inv EXCEPT ![i] = [Fetch(r, r.found, issues') EXCEPT !.pc = next]]
           \/ /\ Raises
              /\ issues' = issues
              /\ inv' = [inv EXCEPT ![i].pc = next]
        /\ UNCHANGED gh
        /\ Frame(i)

\* _add_remote_link of _create_jira_issue
AddRemoteLink(i) ==
    LET r == inv[i]
    IN  /\ r.pc = "c_link"
        /\ issues' = [issues EXCEPT ![r.found].links = Append(@, NewLink(r.event.gh))]
        /\ inv' = [inv EXCEPT ![i].pc = "c_gh_get"]
        /\ UNCHANGED gh
        /\ NoError
        /\ Frame(i)

\* After _update_github_with_jira_key: _update_link_resolved when the source
\* issue is not open, then return
AfterAmend(r) ==
    IF r.event.gh.state # "open" THEN [r EXCEPT !.pc = "c_lr"] ELSE Created(r)

\* REPO.get_issue(gh_issue['number']) of _update_github_with_jira_key
GetSourceIssue(i) ==
    LET r == inv[i]
    IN  /\ r.pc = "c_gh_get"
        /\ inv' = [inv EXCEPT ![i].pc = "c_edit", ![i].apiTitle = gh.title]
        /\ UNCHANGED <<gh, issues>>
        /\ NoError
        /\ Frame(i)

\* f'{api_gh_issue.title} ({jira_issue.key})', the title the edit sends
Amended(title, key) == title \o <<" ", "(">> \o key \o <<")">>

\* EditLoop with a loop that raises at the first GithubException
EditLoopOnce(retries, fails) ==
    IF fails = 0 THEN [ok |-> TRUE, edits |-> 1] ELSE [ok |-> FALSE, edits |-> 1]

\* The loop of _update_github_with_jira_key, entered with the given retries
\* when the next `fails` calls of api_gh_issue.edit raise GithubException:
\* whether it ends with an edit that succeeds (ok) or with the exception,
\* and the number of edits it has made.
RECURSIVE EditLoop(_, _)
EditLoop(retries, fails) ==
    IF fails = 0 THEN [ok |-> TRUE, edits |-> 1]
    ELSE IF retries = 0 THEN [ok |-> FALSE, edits |-> 1]
    ELSE [EditLoop(retries - 1, fails - 1) EXCEPT !.edits = @ + 1]

\* _update_github_with_jira_key from its loop on, taken as one step: the
\* edits that raise change nothing on GitHub and read nothing of it, so
\* the loop is one edit of the title, or none.  GitHub lets any number of
\* edits fail, up to all that the loop makes.  r.edits is the number of
\* edits made when the exception leaves the loop.
EditTitle(i) ==
    LET r == inv[i]
    IN  /\ r.pc = "c_edit"
        /\ \E ok \in {EditLoop(EditRetries, fails).ok : fails \in 0..(EditRetries + 1)} :
              IF ok
              THEN /\ gh' = [gh EXCEPT !.title = Amended(r.apiTitle, KeyOf(r.found))]
                   /\ inv' = [inv EXCEPT ![i] = AfterAmend(r)]
              ELSE /\ gh' = gh
                   /\ \E edits \in {EditLoop(EditRetries, fails).edits :
                                       fails \in {f \in 0..(EditRetries + 1) :
                                                    ~EditLoop(EditRetries, f).ok}} :
                         inv' = [inv EXCEPT ![i] =
                                    [Fail(r, "GithubException") EXCEPT !.edits = edits]]
        /\ UNCHANGED issues
        /\ NoError
        /\ Frame(i)

-----------------------------------------------------------------------------
(* The handlers, after the issue is found.                                 *)

\* ResolvedLink with an _update_link_resolved that never marks a link resolved
ResolvedLinkOpen(link, gh_issue) ==
    IF link.globalId = Url
    THEN [link EXCEPT !.title = gh_issue.title, !.resolved = FALSE]
    ELSE link

\* One link as _update_link_resolved leaves it
ResolvedLink(link, gh_issue) ==
    IF link.globalId = Url
    THEN [link EXCEPT !.title = gh_issue.title, !.resolved = gh_issue.state # "open"]
    ELSE link

\* _update_link_resolved: jira.remote_links(issue) and link.update of every
\* link to the source issue, taken as one step
UpdateLinkResolved(i) ==
    LET r == inv[i]
    IN  /\ r.pc \in {"c_lr", "lr"}
        /\ issues' = [issues EXCEPT ![r.found].links =
                         [n \in DOMAIN @ |-> ResolvedLink(@[n], r.event.gh)]]
        /\ inv' = [inv EXCEPT ![i] =
                      IF r.pc = "c_lr" THEN Created(r)
                      ELSE IF r.event.kind = "edited" THEN [r EXCEPT !.pc = "comment"]
                      ELSE End(r, "done")]
        /\ UNCHANGED gh
        /\ NoError
        /\ Frame(i)

\* issue.update(fields=fields) of handle_issue_edited
UpdateIssue(i) ==
    LET r == inv[i]
    IN  /\ r.pc = "ed_update"
        /\ issues' = [issues EXCEPT
                         ![r.found].description = GetDescription(r.event.gh),
                         ![r.found].summary = GetSummary(r.event.gh),
                         ![r.found].components =
                             IF UpdateComponentsField(r.comps) = <<>> THEN @
                             ELSE StoredComponents(UpdateComponentsField(r.comps))]
        /\ inv' = [inv EXCEPT ![i].pc = "lr"]
        /\ UNCHANGED gh
        /\ NoError
        /\ Frame(i)

\* The comment the handler adds
CommentOf(r) ==
    CASE r.event.kind = "comment_created" -> GetJiraCommentBody(Markdown2wiki(r.event.gh.comment))
      [] r.event.kind = "comment_deleted" -> DeletedComment
      [] OTHER -> AuditComment(r.event.gh.isPr, r.event.kind)

\* jira.add_comment of _leave_jira_issue_comment, handle_comment_created and
\* handle_comment_deleted
AddComment(i) ==
    LET r == inv[i]
    IN  /\ r.pc = "comment"
        /\ issues' = [issues EXCEPT ![r.found].comments = Append(@, CommentOf(r))]
        /\ inv' = [inv EXCEPT ![i] =
                      IF r.event.kind \in {"closed", "reopened"}
                      THEN [r EXCEPT !.pc = "status"]
                      ELSE End(r, "done")]
        /\ UNCHANGED gh
        /\ NoError
        /\ Frame(i)

\* NewLabels with a handle_issue_labeled that sends the new label alone
NewLabelsOnly(r) ==
    IF r.event.kind = "labeled"
    THEN {GetJiraLabel(r.event.label)}
    ELSE r.labels \ {GetJiraLabel(r.event.label)}

\* NewLabels with a handle_issue_unlabeled that sends the list it read
NewLabelsKept(r) ==
    IF r.event.kind = "labeled"
    THEN r.labels \cup {GetJiraLabel(r.event.label)}
    ELSE r.labels

\* The list handle_issue_labeled / handle_issue_unlabeled sends: the labels
\* of the issue object with the label appended / removed (as a set: JIRA
\* keeps a set of labels)
NewLabels(r) ==
    IF r.event.kind = "labeled"
    THEN r.labels \cup {GetJiraLabel(r.event.label)}
    ELSE r.labels \ {GetJiraLabel(r.event.label)}

\* jira_issue.update(fields={'labels': labels})
UpdateLabels(i) ==
    LET r == inv[i]
    IN  /\ r.pc = "lab_update"
        /\ issues' = [issues EXCEPT ![r.found].labels = NewLabels(r)]
        /\ inv' = [inv EXCEPT ![i] = End(r, "done")]
        /\ UNCHANGED gh
        /\ NoError
        /\ Frame(i)

\* EditedComments without the search for the old comment: the edit is
\* always added as a new comment
EditedCommentsAppend(comments, old_jira_body, new_jira_body) ==
    Append(comments, new_jira_body)

\* The comments of handle_comment_edited after its loop: the first comment
\* whose body is the old body is updated; when there is none a comment is
\* added.
EditedComments(comments, old_jira_body, new_jira_body) ==
    LET hits == {n \in DOMAIN comments : comments[n] = old_jira_body}
    IN  IF hits = {} THEN Append(comments, new_jira_body)
        ELSE [comments EXCEPT ![CHOOSE n \in hits : \A m \in hits : n <= m] = new_jira_body]

\* jira.comments(jira_issue.key) and comment.update or jira.add_comment of
\* handle_comment_edited, taken as one step
EditComment(i) ==
    LET r == inv[i]
        old_gh_body == Markdown2wiki(r.event.from)
    IN  /\ r.pc = "ce_apply"
        /\ issues' = [issues EXCEPT ![r.found].comments =
                         EditedComments(@, GetJiraCommentBody(old_gh_body),
                                        GetJiraCommentBody(Markdown2wiki(r.event.gh.comment)))]
        /\ inv' = [inv EXCEPT ![i] = End(r, "done")]
        /\ UNCHANGED gh
        /\ NoError
        /\ Frame(i)

\* A remote call raises an error the code does not handle (the network, the
\* server, a permission): the invocation ends with it.
RemoteError(i) ==
    /\ inv[i].pc \notin Rest
    /\ Raises
    /\ inv' = [inv EXCEPT ![i] = Fail(inv[i], "remote call")]
    /\ UNCHANGED <<gh, issues>>
    /\ Frame(i)

-----------------------------------------------------------------------------
(* sync_issues_manually.  The characters of its input: digits, letters,    *)
(* the separators "," and " ", and "sup2", which stands for the one        *)
(* character SUPERSCRIPT TWO.  The repository of the model has one issue,  *)
(* number 1.                                                               *)

\* Characters \W matches
SepSet == {",", " "}

\* Characters str.isnumeric() holds for: the decimal digits, and digits and
\* numbers of other kinds
NumericSet == DigitSet \cup {"sup2"}

\* re.split(r'\W+', s) from position i on, where a piece starts: the
\* pieces between the runs of separators, empty ones at the ends included
RECURSIVE SplitFrom(_, _)
SplitFrom(s, i) ==
    LET j == RunEnd(s, i, WordSet \cup NumericSet)
    IN  IF j > Len(s) THEN <<SubSeq(s, i, Len(s))>>
        ELSE <<SubSeq(s, i, j - 1)>> \o SplitFrom(s, RunEnd(s, j, SepSet))

\* str.isnumeric(): every character is numeric and there is at least one
IsNumeric(token) == token # <<>> /\ \A n \in DOMAIN token : token[n] \in NumericSet

\* int(token) raises ValueError: a character is not a decimal digit
IntRaises(token) == \E n \in DOMAIN token : token[n] \notin DigitSet

\* event['inputs']['issue-numbers']: what the maintainer typed
BatchInputs ==
    {<<"1">>,
     <<"1", ",", "1">>,
     <<"0", "1", " ", "1">>,
     <<"x", ",", " ", "1">>,
     <<"1", ",", "x", "1", ",", "1">>,
     <<",", "1", ",">>,
     <<>>,
     <<"1", " ", "sup2", " ", "1">>,
     <<"sup2", "1">>}

\* sync_issues_manually up to its loop: the workflow is triggered by hand
\* while no invocation is in flight
SyncIssuesManually(i) ==
    /\ runs < MaxRuns
    /\ Quiet
    /\ ~overlap
    /\ i = 1
    /\ batch.pc # "loop"
    /\ \E input \in BatchInputs :
          batch' = [NoBatch EXCEPT !.pc = "loop", !.input = input,
                                   !.tokens = SplitFrom(input, 1)]
    /\ runs' = runs + 1
    /\ snap' = Snapshot(i, gh.title)
    /\ lastDone' = 0
    /\ UNCHANGED <<gh, issues, inv, errors, overlap>>

\* One turn of the loop of sync_issues_manually, taken when the call of
\* handle_issue_opened of the turn before has returned: the next token is
\* skipped, or int() raises, or REPO.get_issue returns the source issue as
\* it is and handle_issue_opened is called with it.  An exception that left
\* handle_issue_opened leaves the loop, and the loop ends with the tokens.
NextToken(i) ==
    /\ batch.pc = "loop"
    /\ i = 1
    /\ inv[i].pc \in Rest
    /\ IF inv[i].pc = "failed" /\ batch.ran # <<>>
       THEN /\ batch' = [batch EXCEPT !.pc = "raised", !.error = inv[i].error]
            /\ inv' = inv
       ELSE IF batch.tokens = <<>>
       THEN /\ batch' = [batch EXCEPT !.pc = "returned"]
            /\ inv' = inv
       ELSE LET issue_number == Head(batch.tokens)
            IN  IF ~IsNumeric(issue_number)
                THEN /\ batch' = [batch EXCEPT !.tokens = Tail(@)]
                     /\ inv' = inv
                ELSE IF IntRaises(issue_number)
                THEN /\ batch' = [batch EXCEPT !.pc = "raised", !.error = "ValueError"]
                     /\ inv' = inv
                ELSE /\ batch' = [batch EXCEPT !.tokens = Tail(@),
                                                !.ran = Append(@, issue_number)]
                     /\ inv' = [inv EXCEPT ![i] =
                                   Begin([kind |-> "opened", label |-> <<>>,
                                          from |-> NoBody, gh |-> gh], 1, FALSE)]
    /\ lastDone' = 0
    /\ UNCHANGED <<gh, issues, runs, errors, overlap, snap>>

\* The remote calls of handle_issue_opened
OpenedStep(i) ==
    \/ Search(i)
    \/ ManualGet(i)
    \/ ManualLink(i)
    \/ CreateIssue(i)
    \/ SetStatus(i)
    \/ AddRemoteLink(i)
    \/ GetSourceIssue(i)
    \/ EditTitle(i)
    \/ RemoteError(i)

-----------------------------------------------------------------------------
(* The specifications: invocations one at a time (Spec), and invocations   *)
(* that race (SpecRace).                                                   *)

Step(i) ==
    \/ Search(i)
    \/ ManualGet(i)
    \/ ManualLink(i)
    \/ CreateIssue(i)
    \/ SetStatus(i)
    \/ AddRemoteLink(i)
    \/ GetSourceIssue(i)
    \/ EditTitle(i)
    \/ UpdateLinkResolved(i)
    \/ UpdateIssue(i)
    \/ AddComment(i)
    \/ UpdateLabels(i)
    \/ EditComment(i)
    \/ RemoteError(i)

Next == \E i \in Procs : Start(i) \/ Redeliver(i) \/ Step(i)

NextRace == \E i \in Procs : Start(i) \/ StartRacing(i) \/ Redeliver(i) \/ Step(i)

\* Manual syncs, one at a time
NextBatch == \E i \in Procs : SyncIssuesManually(i) \/ NextToken(i) \/ OpenedStep(i)

Spec == Init /\ [][Next]_vars

SpecBatch == Init /\ [][NextBatch]_vars

SpecRace == Init /\ [][NextRace]_vars

\* Invocations one at a time, each going on until it returns or fails: an
\* invocation is a process that runs, and its waits are bounded.
SpecFair == Spec /\ \A i \in Procs : WF_vars(Step(i))

-----------------------------------------------------------------------------
(* Properties.                                                             *)

\* The issues the invocations created
CreatedIssues == {k \in DOMAIN issues : issues[k].by # 0}

\* The steps of _create_jira_issue
CreateSteps == {"c_create", "c_status", "c_link", "c_gh_get", "c_edit", "c_lr"}

\* C1: when the Opened handler runs a second time for the same source issue
\* after its first run returned, the search of the second run sees the
\* remote link of the first run, and the second run creates no issue, adds
\* no remote link and does not amend the title: the JIRA project and the
\* title stay as the second run found them, and the two runs have created
\* at most one issue.
C1_SecondOpenedCreatesNothing ==
    \A i \in Procs :
        (inv[i].event.kind = "opened" /\ inv[i].rerun)
        => /\ Linked(snap.issues, Url) # {}
           /\ inv[i].pc \notin CreateSteps
           /\ issues = snap.issues
           /\ gh.title = snap.title
           /\ Len(issues) <= Len(snap.prev.issues) + 1

\* The second run of Opened returned, and the first run had created the issue
C1_Witness ==
    \E i \in Procs :
        /\ inv[i].event.kind = "opened" /\ inv[i].rerun /\ inv[i].pc = "done"
        /\ Len(issues) = Len(snap.prev.issues) + 1
        /\ Linked(issues, Url) = {Len(issues)}
        /\ issues[Len(issues)].by = i


\* The issues that have a remote link whose globalId is the url of the
\* source issue
TargetsOfSource ==
    {k \in DOMAIN issues :
        \E n \in DOMAIN issues[k].links : issues[k].links[n].globalId = Url}

\* C2, as claimed: in every reachable state of every interleaving of
\* invocations for the same source issue, at most one issue has a remote
\* link whose globalId is the url of the source issue.
C2_AtMostOneTarget == Cardinality(TargetsOfSource) <= 1

\* C2, amended: as long as no invocation for the source issue has started
\* while another one was in flight, at most one issue has a remote link
\* whose globalId is the url of the source issue.
C2_AtMostOneTargetInSequence == ~overlap => Cardinality(TargetsOfSource) <= 1

\* Two deliveries, one after the other, the issue created and linked
C2_Witness ==
    /\ ~overlap /\ runs >= 2 /\ Quiet
    /\ CreatedIssues # {}
    /\ Cardinality(TargetsOfSource) = 1
    /\ \A i \in Procs : inv[i].pc # "failed"


\* Invocation i resolves with make_new true
Resolving(i) ==
    /\ inv[i].pc \notin Rest
    /\ MakeNew(inv[i].event.kind, inv[i].event.gh)

\* No search and no manual match of invocation i can find an issue
NothingToFind(i) ==
    /\ Linked(issues, Url) = {}
    /\ LET k == IssueByKey(issues, TitleKey(inv[i].event.gh.title))
       IN  k # 0 => ~DescriptionContains(issues[k].description, Url)

\* Invocation i has created one issue and holds it
HoldsNewIssue(i) ==
    /\ inv[i].found = Len(issues)
    /\ Len(issues) = Len(snap.issues) + 1
    /\ issues[inv[i].found].by = i

\* The waits and the creation of a resolution with make_new true: it
\* creates only after the five waits of the default retries are used up
\* (retries has counted down from 5 to 0), it creates one issue and holds
\* it from then on.
C3_CreatesAfterFiveWaits ==
    \A i \in Procs :
        Resolving(i) =>
            /\ inv[i].retries \in 0..FindRetries
            /\ inv[i].pc = "c_create" =>
                    inv[i].retries = 0 /\ Len(issues) = Len(snap.issues)
            /\ inv[i].pc \in CreateSteps \ {"c_create"} =>
                    inv[i].retries = 0 /\ HoldsNewIssue(i)

NoCreateKinds == {"closed", "deleted", "labeled", "unlabeled"}

\* C4, as claimed: when a handler that resolves with make_new false and
\* does not create (Closed, Deleted, Labeled and Unlabeled on a closed
\* source issue) finds no issue, it returns without raising an error and
\* changes nothing in the JIRA project or on GitHub.
C4_NotFoundIsNoOp ==
    \A i \in Procs :
        (/\ inv[i].event.kind \in NoCreateKinds
         /\ ~MakeNew(inv[i].event.kind, inv[i].event.gh)
         /\ snap.taken
         /\ Linked(snap.issues, Url) = {}
         /\ LET k == IssueByKey(snap.issues, TitleKey(inv[i].event.gh.title))
            IN  k # 0 => ~DescriptionContains(snap.issues[k].description, Url))
        => /\ inv[i].error # "AttributeError: NoneType.update"
           /\ inv[i].pc \in {"done", "failed"} =>
                  issues = snap.issues /\ gh.title = snap.title


\* A lower-case character and its capital
AnyCase(c) == {c} \cup {UpperChars[n] : n \in {n \in DOMAIN LowerChars : LowerChars[n] = c}}

\* The name starts with "status:" or "resolution:", in any letter case
ReservedName(name) ==
    \E prefix \in {<<"s","t","a","t","u","s",":">>,
                    <<"r","e","s","o","l","u","t","i","o","n",":">>} :
        /\ Len(name) >= Len(prefix)
        /\ \A n \in 1..Len(prefix) : name[n] \in AnyCase(prefix[n])

\* The labels of a label set that JIRA owns
Reserved(L) == {l \in L : ReservedName(l)}

\* C5, as claimed: no operation writes a label whose name starts with
\* "status:" or "resolution:" (in any case) from the labels of the source
\* issue to an issue, the creation of an issue included, and no operation
\* removes such a label from an issue: every step leaves the reserved
\* labels of every issue as they were, and a new issue has none.
C5_ReservedLabelsUntouched ==
    [][\A k \in DOMAIN issues' :
          IF k \in DOMAIN issues
          THEN Reserved(issues'[k].labels) = Reserved(issues[k].labels)
          ELSE Reserved(issues'[k].labels) = {}]_vars


\* Invocation i handles a Labeled or Unlabeled event whose mapped label is
\* reserved
ReservedLabelEvent(i) ==
    /\ inv[i].event.kind \in {"labeled", "unlabeled"}
    /\ ReservedName(GetJiraLabel(inv[i].event.label))

\* C6: for an event label whose mapped name starts with "status:" or
\* "resolution:" in any letter case, the Labeled and Unlabeled handlers send
\* no label update, and the label set of every issue stays as it was when
\* the handler started (or, for an issue the resolution created, as it was
\* created).
C6_ReservedLabelEventsChangeNoLabels ==
    \A i \in Procs :
        ReservedLabelEvent(i) =>
            /\ inv[i].pc # "lab_update"
            /\ \A k \in DOMAIN issues :
                  issues[k].labels =
                      IF k \in DOMAIN snap.issues THEN snap.issues[k].labels
                      ELSE {GetJiraLabel(l) : l \in inv[i].event.gh.labels}

\* The Unlabeled handler has returned for a reserved label that the linked
\* issue has, and the Labeled handler for one it has not
C6_Witness ==
    \E i \in Procs : \E k \in Linked(snap.issues, Url) :
        /\ ReservedLabelEvent(i) /\ inv[i].pc = "done"
        /\ inv[i].event.kind = "unlabeled"
        /\ GetJiraLabel(inv[i].event.label) \in issues[k].labels


\* C7, as claimed: when a handler other than Opened has returned for an
\* event and a synced issue, and runs again with the same event, the second
\* run leaves the JIRA project as the first run left it: it adds no issue,
\* no remote link and no comment.
C7_SecondRunChangesNothing ==
    \A i \in Procs :
        (/\ inv[i].rerun /\ inv[i].pc = "done"
         /\ inv[i].event.kind # "opened"
         /\ Linked(snap.issues, Url) # {})
        => issues = snap.issues


\* C8, as claimed: when an invocation ended with a remote call that failed,
\* at whatever step, and the same event is delivered again, at most one
\* issue is created for the source issue in all.
C8_RetryCreatesAtMostOne ==
    \A i \in Procs :
        (inv[i].run >= 2 /\ snap.taken /\ ~snap.prev.done)
        => Cardinality(CreatedIssues) <= 1


\* The comment body for the old text (body0) and for the new text (body1)
\* of the Comment-edited event of invocation i
OldFingerprint(i) == GetJiraCommentBody(Markdown2wiki(inv[i].event.from))
NewFingerprint(i) == GetJiraCommentBody(Markdown2wiki(inv[i].event.gh.comment))

\* The Comment-edited handler of invocation i has returned, and when it
\* started issue k was the linked issue and had a comment with the body
\* for the old text
EditedInPlaceCase(i, k) ==
    /\ inv[i].event.kind = "comment_edited" /\ inv[i].pc = "done"
    /\ snap.taken
    /\ k \in Linked(snap.issues, Url)
    /\ OldFingerprint(i) \in Range(snap.issues[k].comments)

\* C9: when the source comment is edited from body0 to body1 and the issue
\* has a comment whose body is still the one made from body0, the handler
\* leaves the number of comments of the issue as it was, one comment that
\* had the body made from body0 now has the body made from body1, and no
\* other comment is changed.
C9_CommentEditedInPlace ==
    \A i \in Procs : \A k \in DOMAIN snap.issues :
        EditedInPlaceCase(i, k) =>
            LET before == snap.issues[k].comments
                after  == issues[k].comments
                changed == {n \in DOMAIN before : after[n] # before[n]}
            IN  /\ Len(after) = Len(before)
                /\ Cardinality(changed) <= 1
                /\ \E n \in DOMAIN before :
                      /\ before[n] = OldFingerprint(i)
                      /\ after[n] = NewFingerprint(i)
                      /\ changed \subseteq {n}

\* A comment was created, then edited to a text with another body, and the
\* handler of the edit has returned
C9_Witness ==
    \E i \in Procs : \E k \in DOMAIN snap.issues :
        /\ EditedInPlaceCase(i, k)
        /\ snap.prev.kind = "comment_created" /\ snap.prev.done
        /\ OldFingerprint(i) # NewFingerprint(i)
        /\ NewFingerprint(i) \in Range(issues[k].comments)


\* The Unlabeled handler of invocation i has returned for a label that is
\* not reserved, the delivery before it was the Labeled event for the same
\* label and its handler returned, and issue k was the linked issue before
\* the two
LabeledThenUnlabeled(i, k) ==
    /\ inv[i].event.kind = "unlabeled" /\ inv[i].pc = "done"
    /\ ~ReservedName(GetJiraLabel(inv[i].event.label))
    /\ snap.taken
    /\ snap.prev.kind = "labeled" /\ snap.prev.done
    /\ snap.prev.label = inv[i].event.label
    /\ k \in Linked(snap.prev.issues, Url)

\* The Unlabeled handler of invocation i has ended for a label that the
\* linked issue k did not have when the handler started
UnlabeledAbsent(i, k) ==
    /\ inv[i].event.kind = "unlabeled" /\ inv[i].pc \in {"done", "failed"}
    /\ snap.taken
    /\ k \in Linked(snap.issues, Url)
    /\ GetJiraLabel(inv[i].event.label) \notin snap.issues[k].labels

\* C10, as claimed: for every label set L of the issue and every label x
\* that is not reserved, the Labeled handler for x and then the Unlabeled
\* handler for x leave the label set equal to L.
C10_LabelThenUnlabelRestores ==
    \A i \in Procs : \A k \in DOMAIN snap.prev.issues :
        LabeledThenUnlabeled(i, k) => issues[k].labels = snap.prev.issues[k].labels

\* C10, amended: the Labeled handler for x and then the Unlabeled handler
\* for x leave the label set equal to L without the mapped x, which is L
\* when L did not hold the mapped x; and the Unlabeled handler for a label
\* that the issue does not have changes nothing in the project and raises
\* no error of its own.
C10_LabelThenUnlabelRemoves ==
    \A i \in Procs :
        /\ \A k \in DOMAIN snap.prev.issues :
              LabeledThenUnlabeled(i, k) =>
                  issues[k].labels =
                      snap.prev.issues[k].labels \ {GetJiraLabel(inv[i].event.label)}
        /\ \A k \in DOMAIN snap.issues :
              UnlabeledAbsent(i, k) =>
                  /\ issues = snap.issues
                  /\ inv[i].error \in {"", "remote call"}

\* Labeled then Unlabeled for a label the issue did not have, the label set
\* not empty and as before; and Unlabeled for a label the issue has not
C10_Witness ==
    \E i \in Procs : \E k \in DOMAIN snap.prev.issues :
        /\ LabeledThenUnlabeled(i, k)
        /\ GetJiraLabel(inv[i].event.label) \notin snap.prev.issues[k].labels
        /\ GetJiraLabel(inv[i].event.label) \in snap.issues[k].labels
        /\ issues[k].labels = snap.prev.issues[k].labels
        /\ issues[k].labels # {}

\* The Unlabeled handler has returned for a label the issue did not have
C10_WitnessAbsent ==
    \E i \in Procs : \E k \in DOMAIN snap.issues :
        UnlabeledAbsent(i, k) /\ inv[i].pc = "done"


\* The name with every space replaced by a hyphen
Hyphenated(name) == [n \in DOMAIN name |-> IF name[n] = " " THEN "-" ELSE name[n]]

\* Invocation i handles the Labeled event for a label that is not reserved,
\* and issue k was the linked issue when it started
LabeledFound(i, k) ==
    /\ inv[i].event.kind = "labeled"
    /\ ~ReservedName(Hyphenated(inv[i].event.label))
    /\ snap.taken
    /\ k \in Linked(snap.issues, Url)

\* C11: when the Labeled handler has returned for a label that is not
\* reserved and the issue of the source issue was found, the label set of
\* the issue is the one it had before together with the mapped label (the
\* name with hyphens for spaces); when the issue had the mapped label
\* already, the handler sends no update.
C11_LabeledAddsMappedLabel ==
    \A i \in Procs : \A k \in DOMAIN snap.issues :
        LabeledFound(i, k) =>
            LET mapped == Hyphenated(inv[i].event.label)
                before == snap.issues[k].labels
            IN  /\ inv[i].pc = "done" => issues[k].labels = before \cup {mapped}
                /\ mapped \in before => inv[i].pc # "lab_update" /\ issues = snap.issues

\* The Labeled handler has returned for a label with a space in its name,
\* the issue had other labels and has them and the mapped label now
C11_Witness ==
    \E i \in Procs : \E k \in DOMAIN snap.issues :
        /\ LabeledFound(i, k) /\ inv[i].pc = "done"
        /\ inv[i].event.label = LabelGoodFirst
        /\ snap.issues[k].labels # {}
        /\ <<"a", "-", "b">> \notin snap.issues[k].labels
        /\ issues[k].labels = snap.issues[k].labels \cup {<<"a", "-", "b">>}


\* Invocation i handled the Closed event of the closed source issue and
\* returned, and issue k was linked to the source issue when it started
ClosedSynced(i, k) ==
    /\ inv[i].event.kind = "closed"
    /\ inv[i].event.gh.state = "closed"
    /\ inv[i].pc = "done"
    /\ snap.taken
    /\ k \in Linked(snap.issues, Url)

\* The fields of an issue that the Closed and Reopened handlers leave alone
KeptFields(t) ==
    <<t.summary, t.description, t.labels, t.issuetype, t.components, t.by>>

\* A link without the two fields _update_link_resolved writes
LinkIdentity(link) == <<link.globalId, link.url, link.relationship>>

\* C12: when the Closed handler has returned for a closed source issue
\* that was synced, every link of the issue to the source issue is
\* resolved, the summary, description, labels, issue type and components
\* of the issue are what they were, and nothing else in the project
\* differs but the status field, the title and resolved flag of the link,
\* and one audit comment added at the end of the comments.
C12_ClosedMarksLinkResolved ==
    \A i \in Procs : \A k \in DOMAIN snap.issues :
        ClosedSynced(i, k) =>
            LET old == snap.issues[k]
                new == issues[k]
            IN  /\ \A n \in DOMAIN new.links :
                       new.links[n].globalId = Url => new.links[n].resolved
                /\ KeptFields(new) = KeptFields(old)
                /\ DOMAIN new.links = DOMAIN old.links
                /\ \A n \in DOMAIN new.links :
                       LinkIdentity(new.links[n]) = LinkIdentity(old.links[n])
                /\ new.comments = Append(old.comments, AuditComment(inv[i].event.gh.isPr, "closed"))
                /\ new.status \in {old.status, "Closed"}
                /\ DOMAIN issues = DOMAIN snap.issues
                /\ \A j \in DOMAIN issues \ {k} : issues[j] = snap.issues[j]

\* The Closed handler has returned for a synced issue whose link was not
\* resolved: the link is resolved now and the status field is "Closed"
C12_Witness ==
    \E i \in Procs : \E k \in DOMAIN snap.issues :
        /\ ClosedSynced(i, k)
        /\ \E n \in DOMAIN issues[k].links :
              /\ issues[k].links[n].globalId = Url
              /\ ~snap.issues[k].links[n].resolved
              /\ issues[k].links[n].resolved
        /\ issues[k].status = "Closed"
        /\ issues[k].labels # {}


\* The issue the key at the end of the title names is in project iss and
\* has the url of the source issue in its description: the manual match
ManualMatch(iss, title) ==
    /\ TitleKey(title) # <<>>
    /\ \E k \in DOMAIN iss :
          KeyOf(k) = TitleKey(title) /\ DescriptionContains(iss[k].description, Url)

\* Invocation i handled the Opened event of the open source issue and
\* returned, and no issue was linked to the source issue when it started
OpenedUnsynced(i) ==
    /\ inv[i].event.kind = "opened"
    /\ inv[i].event.gh.state = "open"
    /\ inv[i].pc = "done"
    /\ snap.taken
    /\ Linked(snap.issues, Url) = {}

\* "GH #<number>: " ("PR" for a pull request)
SummaryHead(gh_issue) ==
    (IF gh_issue.isPr THEN <<"P", "R">> ELSE <<"G", "H">>)
        \o <<" ", "#">> \o NumberText \o <<":", " ">>

\* What the Opened handler leaves when it creates: one issue more, with
\* the given summary and one unresolved link to the source issue, and the
\* source title followed by the key of the new issue
OpenedCreated(i, summary) ==
    LET k == Len(issues)
    IN  /\ k = Len(snap.issues) + 1
        /\ SubSeq(issues, 1, k - 1) = snap.issues
        /\ issues[k].summary = summary
        /\ Len(issues[k].links) = 1
        /\ issues[k].links[1].globalId = Url
        /\ ~issues[k].links[1].resolved
        /\ gh.title = snap.title \o <<" ", "(">> \o KeyOf(k) \o <<")">>

SampleTitles ==
    {<<>>, TitlePlain, TitleKeyed,
     <<"T", " ", "(", "P", "-", "1", ")", " ", "x">>,
     <<"T", " ", "(", "a", "_", "1", "-", "2", "0", ")", " ", "(", "P", "-", "1", ")">>,
     <<"T", " ", "(", "P", "-", "1">>,
     <<"T", " ", "(", "P", "-">>,
     <<"T", " ", "(">>,
     <<"T", " ">>,
     <<"(", "P", "-", "1", ")">>}

\* Keys of issues: of the project, and of a project with a digit and an
\* underscore in its key
SampleKeys == {KeyOf(1), KeyOf(2), <<"A", "1", "_", "B", "-", "1", "0">>}

\* The summary of the source issue if title were its title
SummaryOf(title) == GetSummary([gh EXCEPT !.title = title])

\* The summary is the same after the title is amended with the key, and
\* after it is amended once more with any key
AmendKeepsSummary(title, key) ==
    /\ SummaryOf(Amended(title, key)) = SummaryOf(title)
    /\ \A again \in SampleKeys :
          SummaryOf(Amended(Amended(title, key), again)) = SummaryOf(title)

\* C14: for every title and every key, the summary of the title followed
\* by " (<key>)" is the summary of the title, and so is the summary after a
\* second amend: checked for the sample titles and keys, and for the title
\* and the key of every title edit an invocation is about to send.
C14_SummaryIgnoresAmend ==
    /\ \A i \in Procs :
          inv[i].pc = "c_edit" => AmendKeepsSummary(inv[i].apiTitle, KeyOf(inv[i].found))
    /\ runs = 0 =>
          \A title \in SampleTitles : \A key \in SampleKeys : AmendKeepsSummary(title, key)

\* The title edit has amended a title that had a key already: the title
\* holds two keys and its summary is the one of the title without any
C14_Witness ==
    \E i \in Procs : \E k \in DOMAIN issues :
        /\ inv[i].pc = "done"
        /\ snap.taken /\ snap.title = TitleKeyed
        /\ gh.title = Amended(TitleKeyed, KeyOf(k))
        /\ GetSummary(gh) = GetSummary([gh EXCEPT !.title = TitlePlain])
        /\ issues[k].summary = GetSummary(gh)


\* The links of issue t to the source issue
LinksToSource(t) == {n \in DOMAIN t.links : t.links[n].globalId = Url}

\* No issue of project iss has two links with one globalId, and every issue
\* the handlers created has exactly one link to the source issue
LinksInOrder(iss) ==
    \A k \in DOMAIN iss :
        /\ \A m, n \in DOMAIN iss[k].links :
              iss[k].links[m].globalId = iss[k].links[n].globalId => m = n
        /\ iss[k].by # 0 => Cardinality(LinksToSource(iss[k])) = 1

\* The issue the manual match of an invocation that starts in project iss
\* with the given title returns, 0 when it has none
ManuallyMatched(iss, title) ==
    IF Linked(iss, Url) = {} /\ ManualMatch(iss, title)
    THEN CHOOSE k \in DOMAIN iss : KeyOf(k) = TitleKey(title)
    ELSE 0

\* C15: when an invocation that ran alone has returned, in a project whose
\* links were in order when it started, the links are in order: no issue
\* has two links with one globalId, every issue the handlers created has
\* exactly one link to the source issue, and so has the issue the
\* invocation matched by the key in the title.  The initial projects are in
\* order, so this holds after every sequence of invocations that return.
C15_LinksStayInOrder ==
    /\ runs = 0 => LinksInOrder(issues)
    /\ \A i \in Procs :
          inv[i].pc = "done" /\ snap.taken /\ LinksInOrder(snap.issues) =>
              /\ LinksInOrder(issues)
              /\ LET k == ManuallyMatched(snap.issues, snap.title)
                 IN  k # 0 => Cardinality(LinksToSource(issues[k])) = 1

\* Two invocations have returned one after the other; the first matched
\* an issue by the key in the title or created one, and the issue has one
\* link to the source issue
C15_Witness ==
    \E i \in Procs : \E k \in DOMAIN issues :
        /\ inv[i].pc = "done" /\ snap.taken /\ snap.prev.done
        /\ LinksInOrder(snap.issues)
        /\ Cardinality(LinksToSource(issues[k])) = 1
        /\ \/ issues[k].by # 0
           \/ /\ k \in DOMAIN snap.prev.issues
              /\ k = ManuallyMatched(snap.prev.issues, TitleKeyed)


\* The manual sync is over and no exception left a call of
\* handle_issue_opened it made
BatchOver ==
    /\ batch.pc \in {"returned", "raised"}
    /\ batch.error \in {"", "ValueError"}

\* The manual sync went through all its tokens: the Opened handler ran for
\* the numeric ones, in their order, and the project has no second issue
\* for the source issue
BatchRanAll ==
    /\ batch.pc = "returned"
    /\ batch.ran = SelectSeq(SplitFrom(batch.input, 1), IsNumeric)
    /\ Len(issues) <= Len(snap.issues) + 1
    /\ Linked(snap.issues, Url) # {} => issues = snap.issues
    /\ Cardinality(Linked(issues, Url)) <= 1

\* C16: a manual sync whose calls of the Opened handler raise nothing goes
\* through the tokens of its input in order, skips every token that is not
\* numeric and does not stop there, runs the Opened handler for every
\* numeric token, and leaves no second issue for a number that is synced
\* already or occurs twice.
C16_BatchSkipsAndRunsAll == BatchOver => BatchRanAll

\* The same for the inputs whose numeric tokens are decimal numbers
C16_DecimalBatchRunsAll ==
    BatchOver /\ (\A n \in DOMAIN batch.input : batch.input[n] # "sup2") => BatchRanAll

\* A manual sync has skipped a token, run the Opened handler twice for the
\* number 1 and returned, and the project has one issue more
C16_Witness ==
    /\ batch.pc = "returned"
    /\ batch.input = <<"1", ",", "x", "1", ",", "1">>
    /\ batch.ran = <<<<"1">>, <<"1">>>>
    /\ Len(issues) = Len(snap.issues) + 1


\* Invocation i handles the Reopened event, and when it started no issue
\* was linked to the source issue and none matched the key in its title
ReopenedUnsynced(i) ==
    /\ inv[i].event.kind = "reopened"
    /\ snap.taken
    /\ Linked(snap.issues, Url) = {}
    /\ ~ManualMatch(snap.issues, snap.title)

\* Invocation i handled the Reopened event and returned, and issue k was
\* linked to the source issue when it started
ReopenedSynced(i, k) ==
    /\ inv[i].event.kind = "reopened"
    /\ inv[i].pc = "done"
    /\ snap.taken
    /\ k \in Linked(snap.issues, Url)

\* C17 as the spec states it: the Reopened handler, when no issue is
\* linked to the source issue, creates none, does not wait in the retry
\* loop and changes nothing.
C17_ReopenedCreatesNothing ==
    \A i \in Procs :
        ReopenedUnsynced(i) =>
            /\ issues = snap.issues
            /\ inv[i].pc \notin CreateSteps
            /\ inv[i].pc = "search" => inv[i].retries = FindRetries

\* C17: the Reopened handler resolves with should_create true.  When no
\* issue is linked to the source issue it creates one after the last wait
\* of the retry loop, and when it has returned the project has one issue
\* more, with an unresolved link to the source issue, the audit comment
\* and the status "Open" or none.  When an issue is linked it does what
\* the Closed handler does, with status "Open" and the link not resolved:
\* the other fields and the other issues are as they were.
C17_ReopenedCreatesWhenMissing ==
    \A i \in Procs :
        /\ ReopenedUnsynced(i) =>
              /\ inv[i].pc \in CreateSteps => inv[i].retries = 0
              /\ inv[i].pc = "done" =>
                    LET k == Len(issues)
                    IN  /\ k = Len(snap.issues) + 1
                        /\ SubSeq(issues, 1, k - 1) = snap.issues
                        /\ Cardinality(LinksToSource(issues[k])) = 1
                        /\ \A n \in LinksToSource(issues[k]) : ~issues[k].links[n].resolved
                        /\ issues[k].comments = <<AuditComment(inv[i].event.gh.isPr, "reopened")>>
                        /\ issues[k].status \in {"", "Open"}
        /\ \A k \in DOMAIN snap.issues :
              ReopenedSynced(i, k) =>
                  LET old == snap.issues[k]
                      new == issues[k]
                  IN  /\ \A n \in LinksToSource(new) : ~new.links[n].resolved
                      /\ KeptFields(new) = KeptFields(old)
                      /\ DOMAIN new.links = DOMAIN old.links
                      /\ \A n \in DOMAIN new.links :
                            LinkIdentity(new.links[n]) = LinkIdentity(old.links[n])
                      /\ new.comments =
                            Append(old.comments, AuditComment(inv[i].event.gh.isPr, "reopened"))
                      /\ new.status \in {old.status, "Open"}
                      /\ DOMAIN issues = DOMAIN snap.issues
                      /\ \A j \in DOMAIN issues \ {k} : issues[j] = snap.issues[j]

\* The Reopened handler has returned for a source issue that had no issue:
\* it has created one
C17_Witness ==
    \E i \in Procs :
        /\ ReopenedUnsynced(i)
        /\ inv[i].pc = "done"
        /\ Len(issues) = Len(snap.issues) + 1
        /\ issues[Len(issues)].status = "Open"

\* The Reopened handler has returned for a synced issue whose link was
\* resolved: the link is not resolved now
C17_WitnessSynced ==
    \E i \in Procs : \E k \in DOMAIN snap.issues :
        /\ ReopenedSynced(i, k)
        /\ \E n \in LinksToSource(snap.issues[k]) :
              snap.issues[k].links[n].resolved /\ ~issues[k].links[n].resolved
        /\ issues[k].status = "Open"


\* The title edit of invocation i has raised GithubException for the last
\* time: the exception has left the handler
EditGaveUp(i) == inv[i].pc = "failed" /\ inv[i].error = "GithubException"

\* C18 as the spec states it: the title amend makes at most 5 edits, and
\* the exception leaves after the 5th.
C18_AtMostFiveEdits ==
    \A i \in Procs :
        /\ inv[i].edits <= 5
        /\ EditGaveUp(i) => inv[i].edits = 5

\* C18: the title amend makes at most 6 edits, the first and 5 retries.
\* It stops at the first edit that succeeds, so the title is the one the
\* invocation found or that title amended once; when every edit raises,
\* the exception leaves after the 6th, the title is as it was, and the new
\* issue and its link to the source issue exist.
C18_AtMostSixEdits ==
    \A i \in Procs :
        /\ inv[i].edits <= 6
        /\ snap.taken =>
              \/ gh.title = snap.title
              \/ \E k \in DOMAIN issues : gh.title = Amended(snap.title, KeyOf(k))
        /\ EditGaveUp(i) /\ snap.taken =>
              LET k == Len(issues)
              IN  /\ inv[i].edits = 6
                  /\ gh.title = snap.title
                  /\ k = Len(snap.issues) + 1
                  /\ issues[k].by = i
                  /\ Cardinality(LinksToSource(issues[k])) = 1

\* Every edit of the title has raised, and the exception has left the
\* handler with the new issue and its link in the project
C18_Witness ==
    \E i \in Procs :
        /\ EditGaveUp(i) /\ snap.taken
        /\ inv[i].edits = 6
        /\ Len(issues) = Len(snap.issues) + 1
        /\ LinksToSource(issues[Len(issues)]) # {}


\* Invocation i started alone with no issue linked to the source issue and
\* a key at the end of the title: its resolution tries the manual match
TriesManualMatch(i) ==
    /\ inv[i].pc # "idle"
    /\ snap.taken
    /\ Linked(snap.issues, Url) = {}
    /\ TitleKey(snap.title) # <<>>

\* The errors that leave the manual match itself
ManualMatchErrors == {"TypeError", "AttributeError: JIRA.exceptions"}

\* The manual match is tried only after an empty search; when the issue of
\* the key exists with the url in its description the invocation creates
\* no issue, and has added one link to that issue when it returns; in every
\* other case no issue that was there gets a link
ManualMatchSafe(i) ==
    /\ inv[i].pc \in {"mm_get", "mm_link"} => Linked(issues, Url) = {}
    /\ TriesManualMatch(i) =>
          IF ManualMatch(snap.issues, snap.title)
          THEN /\ Len(issues) = Len(snap.issues)
               /\ inv[i].pc = "done" =>
                     Cardinality(LinksToSource(issues[ManuallyMatched(snap.issues, snap.title)])) = 1
          ELSE \A k \in DOMAIN snap.issues : issues[k].links = snap.issues[k].links

\* C19: the manual match runs only when the search is empty; it adds a
\* link to the issue the key at the end of the title names, and returns
\* that issue, only if the issue exists and has the url of the source issue
\* in its description, and then no issue is created; in every other case
\* it adds no link and the resolution goes on as for an issue not found,
\* so no error leaves the manual match.
C19_ManualMatchOnlyWhenGenuine ==
    \A i \in Procs :
        /\ ManualMatchSafe(i)
        /\ TriesManualMatch(i) => inv[i].error \notin ManualMatchErrors

\* The part of C19 about the links and the issues, without the errors
C19_ManualMatchAddsNoOtherLink == \A i \in Procs : ManualMatchSafe(i)

\* An invocation has returned after it matched the issue by hand: the
\* issue has its link and no issue was created
C19_Witness ==
    \E i \in Procs :
        /\ TriesManualMatch(i) /\ ManualMatch(snap.issues, snap.title)
        /\ inv[i].pc = "done"
        /\ MakeNew(inv[i].event.kind, inv[i].event.gh)
        /\ Len(issues) = Len(snap.issues)
        /\ Linked(issues, Url) # {}


\* Invocation i tries the manual match and the project has no issue with
\* the key of the title: jira.issue raises JIRAError
LookupFails(i) ==
    /\ TriesManualMatch(i)
    /\ IssueByKey(snap.issues, TitleKey(snap.title)) = 0

\* C20: when the lookup of the key at the end of the title fails, the
\* resolution swallows the error and goes on as with no manual match: the
\* invocation never ends with an error of the lookup, and it adds no link
\* to an issue that was there.
C20_LookupErrorSwallowed ==
    \A i \in Procs :
        LookupFails(i) =>
            /\ inv[i].error \notin ManualMatchErrors
            /\ \A k \in DOMAIN snap.issues : issues[k].links = snap.issues[k].links

\* The lookup failed, the error was swallowed, and the handler, which
\* resolves with make_new true, has created the issue and returned
C20_WitnessSwallowed ==
    \E i \in Procs :
        /\ LookupFails(i)
        /\ inv[i].pc = "done"
        /\ MakeNew(inv[i].event.kind, inv[i].event.gh)
        /\ Len(issues) = Len(snap.issues) + 1


\* The value of fields['components'] that invocation i, about to call
\* issue.update in handle_issue_edited, has computed
ComputedComponents(i) == UpdateComponentsField(inv[i].comps)

\* The computed field has the configured component and every component of
\* the issue
ComponentsKept(i) ==
    /\ JiraComponent \in Range(ComputedComponents(i))
    /\ Range(inv[i].comps) \subseteq Range(ComputedComponents(i))

\* C21: the components field computed for the update of an existing issue
\* has the configured component and every component of the issue, and
\* each name once: the configured component is not listed twice when the
\* issue has it already.
C21_ComponentsListedOnce ==
    \A i \in Procs :
        inv[i].pc = "ed_update" =>
            /\ ComponentsKept(i)
            /\ \A m, n \in DOMAIN ComputedComponents(i) :
                  ComputedComponents(i)[m] = ComputedComponents(i)[n] => m = n

\* The part of C21 about what the field contains, without the count
C21_ComponentsContained ==
    \A i \in Procs : inv[i].pc = "ed_update" => ComponentsKept(i)

\* The Edited handler is about to update an issue that has the configured
\* component
C21_WitnessBoth ==
    \E i \in Procs :
        /\ inv[i].pc = "ed_update"
        /\ JiraComponent \in Range(inv[i].comps)


\* Invocations i and j have raced, each handling the Labeled event of a
\* label that is not reserved, the two labels differ, and both have
\* returned
LabeledRaceOver(i, j) ==
    /\ i # j
    /\ overlap
    /\ inv[i].event.kind = "labeled" /\ inv[j].event.kind = "labeled"
    /\ inv[i].event.label # inv[j].event.label
    /\ ~ReservedName(Hyphenated(inv[i].event.label))
    /\ ~ReservedName(Hyphenated(inv[j].event.label))
    /\ inv[i].pc = "done" /\ inv[j].pc = "done"

\* Issue k is the issue synced before the first event: it was not created
\* by an invocation, its description is the one _get_description writes,
\* and it is linked to the source issue
SyncedBefore(k) ==
    /\ issues[k].by = 0
    /\ issues[k].description.fmt \in {"Issue", "Pull Request"}
    /\ k \in Linked(issues, Url)

\* C22: when two Labeled handlers for two different labels that are not
\* reserved have raced on a source issue that was synced and both have
\* returned, the issue has both mapped labels.
C22_BothLabelsAfterRace ==
    \A i, j \in Procs : \A k \in DOMAIN issues :
        LabeledRaceOver(i, j) /\ SyncedBefore(k) =>
            /\ Hyphenated(inv[i].event.label) \in issues[k].labels
            /\ Hyphenated(inv[j].event.label) \in issues[k].labels

\* Two Labeled handlers have raced on a synced issue and returned, and the
\* issue has both labels: the interleaving in which the second read the
\* labels after the update of the first
C22_WitnessBoth ==
    \E i, j \in Procs : \E k \in DOMAIN issues :
        /\ LabeledRaceOver(i, j) /\ SyncedBefore(k)
        /\ Hyphenated(inv[i].event.label) \in issues[k].labels
        /\ Hyphenated(inv[j].event.label) \in issues[k].labels


\* Some issue of the project has a link to the source issue
LinkAttached == \E k \in DOMAIN issues : LinksToSource(issues[k]) # {}

\* Where an invocation is while _find_jira_issue has not found an issue
Unresolved == CreateSteps \cup {"search", "mm_get", "mm_link"}

\* A lookup made when the link is attached finds the issue: the invocation
\* that takes a step from its search leaves the resolution, and goes
\* neither to the manual match, nor to a wait, nor to the creation
LookupFindsLink ==
    \A j \in Procs :
        inv[j].pc = "search" /\ LinkAttached /\ inv'[j] # inv[j] =>
            inv'[j].pc \notin Unresolved

\* The events whose handlers resolve with make_new true and update the
\* issue of an open source issue
CreateEnabledKinds == {"edited", "comment_created", "labeled"}

\* Invocation i of the Opened handler and invocation j of a create-enabled
\* handler have raced on a source issue that had no issue in the project,
\* both have returned, and j has created no issue and added no link (a
\* second link is what the manual match of j adds when its lookup came
\* before the link of i)
OpenedRaceOver(i, j) ==
    /\ i # j
    /\ overlap
    /\ inv[i].event.kind = "opened"
    /\ \A k \in DOMAIN issues : Cardinality(LinksToSource(issues[k])) <= 1
    /\ inv[j].event.kind \in CreateEnabledKinds
    /\ MakeNew(inv[j].event.kind, inv[j].event.gh)
    /\ inv[i].pc = "done" /\ inv[j].pc = "done"
    /\ \A k \in DOMAIN issues : issues[k].by \notin {0, j}

\* The update of invocation j is on issue t
UpdateApplied(j, t) ==
    LET e == inv[j].event
    IN  CASE e.kind = "edited" ->
                /\ t.description = GetDescription(e.gh)
                /\ AuditComment(e.gh.isPr, "edited") \in Range(t.comments)
          [] e.kind = "comment_created" ->
                GetJiraCommentBody(Markdown2wiki(e.gh.comment)) \in Range(t.comments)
          [] e.kind = "labeled" ->
                ReservedName(Hyphenated(e.label)) \/ Hyphenated(e.label) \in t.labels
          [] OTHER -> FALSE

\* After the race there is one issue, the one the Opened handler created,
\* with one link to the source issue and the update of the other handler
OneIssueAfterRace ==
    \A i, j \in Procs :
        OpenedRaceOver(i, j) =>
            /\ Len(issues) = 1
            /\ issues[1].by = i
            /\ Cardinality(LinksToSource(issues[1])) = 1
            /\ UpdateApplied(j, issues[1])

\* C23: when an Opened invocation and a create-enabled invocation race on
\* a source issue that was never synced, a lookup of the second that comes
\* after the link of the first is attached finds the issue, so the second
\* creates none; and when both have returned and the second has created
\* none, there is exactly one issue for the source issue and the update of
\* the second is on it.
C23_OneIssueWhenLinkComesFirst == []OneIssueAfterRace /\ [][LookupFindsLink]_vars

\* The Opened handler and the Edited handler have raced and returned, and
\* the one issue has the description of the edit
C23_Witness ==
    \E i, j \in Procs :
        /\ OpenedRaceOver(i, j)
        /\ inv[j].event.kind = "edited"
        /\ Len(issues) = 1
        /\ issues[1].description = GetDescription(inv[j].event.gh)


\* Titles with a key slug that is not at the end, with two slugs, and with
\* a key in parentheses at the start
SlugTitles ==
    {<<"T", " ", "(", "P", "-", "1", ")", " ", "x">>,
     <<"T", " ", "(", "a", "_", "1", "-", "2", "0", ")", " ", "(", "P", "-", "1", ")">>,
     <<"(", "P", "-", "1", ")">>}

\* The initial states, and those of a source issue with one of these titles
\* that was never synced
InitTitles ==
    \/ Init
    \/ /\ gh \in {NewSource(title) : title \in SlugTitles}
       /\ issues = <<>>
       /\ inv = [i \in Procs |-> Idle]
       /\ runs = 0
       /\ errors = 0
       /\ overlap = FALSE
       /\ snap = NoSnap
       /\ lastDone = 0
       /\ batch = NoBatch

\* The handlers, one invocation at a time, on these source issues too
SpecTitles == InitTitles /\ [][Next]_vars


\* "GH #<number>: <title>" ("PR" for a pull request), before any removal
Prefixed(gh_issue) == SummaryHead(gh_issue) \o gh_issue.title

\* The positions of s that lie in a match of the slug pattern.  A match
\* holds one space, its first character, so no two matches overlap.
SlugCovered(s) ==
    {n \in DOMAIN s : \E b \in 1..n : SlugMatchEnd(s, b) > n}

\* s without the characters at the positions of set out, the others in order
Without(s, out) ==
    LET kept == DOMAIN s \ out
    IN  [m \in 1..Cardinality(kept) |->
            s[CHOOSE n \in kept : Cardinality({x \in kept : x <= n}) = m]]

\* The title without a slug that ends it; any other slug stays
TrailingStripped(title) ==
    LET starts == {b \in DOMAIN title : SlugMatchEnd(title, b) = Len(title) + 1}
    IN  IF starts = {} THEN title
        ELSE SubSeq(title, 1, (CHOOSE b \in starts : TRUE) - 1)

\* The summary of every issue just created, and of every sample title, is
\* what expected gives for the source issue
SummaryIs(expected(_)) ==
    /\ \A i \in Procs :
          inv[i].pc = "c_status" =>
              issues[inv[i].found].summary = expected(inv[i].event.gh)
    /\ runs = 0 =>
          \A title \in SampleTitles :
              SummaryOf(title) = expected([gh EXCEPT !.title = title])

\* The summary the statement gives
TrailingOnly(gh_issue) == SummaryHead(gh_issue) \o TrailingStripped(gh_issue.title)

\* "GH #<number>: <title>" without the characters of any slug
EverySlugOut(gh_issue) == Without(Prefixed(gh_issue), SlugCovered(Prefixed(gh_issue)))

\* C24 as the spec states it: the summary is "GH #<number>: " ("PR" for a
\* pull request) followed by the title with only a slug that ends it
\* removed; a slug elsewhere in the title stays.
C24_OnlyTrailingSlugRemoved == SummaryIs(TrailingOnly)

\* C24: the summary is "GH #<number>: <title>" ("PR" for a pull request)
\* with every match of the slug pattern " (<word>-<digits>)" removed,
\* wherever it stands, and every other character unchanged and in order.
C24_EverySlugRemoved == SummaryIs(EverySlugOut)

\* An issue has just been created for a source issue with a slug in the
\* middle of its title: the summary has lost the slug
C24_Witness ==
    \E i \in Procs :
        /\ inv[i].pc = "c_status"
        /\ inv[i].event.gh.title = <<"T", " ", "(", "P", "-", "1", ")", " ", "x">>
        /\ issues[inv[i].found].summary =
              <<"G", "H", " ", "#">> \o NumberText \o <<":", " ", "T", " ", "x">>


\* A step of invocation i from the update of the status field goes on to
\* the remote link (after a creation) or to the resolved flag (in the
\* Closed and Reopened handlers), with the field set or, after the error
\* of the tracker, with the project as it was; the invocation ends there
\* only with an error that is not the tracker's
StatusStepGoesOn ==
    \A i \in Procs :
        inv[i].pc \in {"c_status", "status"} /\ inv'[i] # inv[i] =>
            \/ /\ inv'[i].pc = (IF inv[i].pc = "c_status" THEN "c_link" ELSE "lr")
               /\ inv'[i].found = inv[i].found
               /\ \/ issues' = issues
                  \/ issues' = [issues EXCEPT ![inv[i].found].status = StatusValue(inv[i])]
            \/ /\ inv'[i].pc = "failed"
               /\ inv'[i].error = "remote call"
               /\ issues' = issues

\* Every link of issue t to the source issue has resolved flag flag
LinksFlagged(t, flag) ==
    /\ LinksToSource(t) # {}
    /\ \A n \in LinksToSource(t) : t.links[n].resolved = flag

\* What follows the update of the status field is done whether the field
\* was set or not: an invocation past the link step of a creation holds an
\* issue with its link; when the Opened handler has returned after a
\* creation that left the field unset, the issue has its link and the title
\* its key; when the Closed (Reopened) handler has returned for a synced
\* issue whose field is not "Closed" ("Open"), the links are resolved (not
\* resolved)
StatusBestEffort ==
    \A i \in Procs :
        /\ inv[i].pc \in {"c_gh_get", "c_edit", "c_lr"} =>
              LinksToSource(issues[inv[i].found]) # {}
        /\ OpenedUnsynced(i) /\ Len(issues) = Len(snap.issues) + 1
                             /\ issues[Len(issues)].status = "" =>
              /\ LinksFlagged(issues[Len(issues)], FALSE)
              /\ gh.title = Amended(snap.title, KeyOf(Len(issues)))
        /\ \A k \in DOMAIN snap.issues :
              /\ ClosedSynced(i, k) /\ issues[k].status # "Closed" =>
                    LinksFlagged(issues[k], TRUE)
              /\ ReopenedSynced(i, k) /\ issues[k].status # "Open" =>
                    LinksFlagged(issues[k], inv[i].event.gh.state # "open")

\* C25: an error of the tracker while the status field is set never ends
\* the invocation: the step goes on to the remote link during a creation
\* and to the resolved flag in the Closed and Reopened handlers on a found
\* issue; and a created issue whose field was left unset has its link and
\* the source title its key, and a found issue whose field was left unset
\* has its resolved flag updated, when the handler has returned.
C25_StatusErrorNotFatal == []StatusBestEffort /\ [][StatusStepGoesOn]_vars

\* The Opened handler has returned after a creation in which the status
\* field could not be set: the issue has its link, the title its key
C25_Witness ==
    \E i \in Procs :
        /\ OpenedUnsynced(i)
        /\ errors = 1
        /\ Len(issues) = Len(snap.issues) + 1
        /\ issues[Len(issues)].status = ""
        /\ LinksFlagged(issues[Len(issues)], FALSE)
        /\ gh.title = Amended(snap.title, KeyOf(Len(issues)))

\* The Closed handler has returned for a synced issue whose status field
\* could not be set: the field is "Open" still and the link is resolved
C25_WitnessClosed ==
    \E i \in Procs : \E k \in DOMAIN snap.issues :
        /\ ClosedSynced(i, k)
        /\ errors = 1
        /\ issues[k].status = "Open"
        /\ LinksFlagged(issues[k], TRUE)

=============================================================================
